---- MODULE Spec2Model ----
(***************************************************************************)
(* A state-machine model of BERT/train.py: the script body (argument       *)
(* check, config dump, the loop over the 40 sessions), main (loaders,      *)
(* model, warmup totals, optimizer/scheduler, the epoch loop, the final    *)
(* torch.save) and train (one batch = zero_grad, forward, backward, clip,  *)
(* optimizer.step, scheduler.step, global_step += 1, summary).             *)
(*                                                                         *)
(* Python frames are functions from the bound names to their values: a     *)
(* name that has not been assigned is not in the DOMAIN, so an unbound     *)
(* local and a missing attribute of args are states of the model.          *)
(* External calls (get_data_loader, MultimodalTransformer, evaluate,       *)
(* torch.save, logging.info ...) are recorded, with their arguments, in    *)
(* io, the most recent call made.                                          *)
(***************************************************************************)
EXTENDS Integers, Sequences, FiniteSets, TLC

\* ---------------------------------------------------------------- bounds
\* len(trn_loader) of a session is drawn from 1..MaxBatches
MaxBatches == 2
\* --epochs is drawn from -NegEpochs..MaxEpochs
MaxEpochs == 2
NegEpochs == 1
\* --logging_steps is drawn from 1..MaxLog
MaxLog == 2

\* ------------------------------------------------------ program constants
\* for sess in range(1,41)
NumSessions == 40
\* parser defaults
DefaultSeed == 1
DefaultNClasses == 7

VARIABLES
    pc,         \* position of the script: a line of the script body, main or train
    args,       \* the argparse Namespace args_ (shared by all sessions)
    sess,       \* the script's loop variable (0: the loop has not started)
    m,          \* the frame of the running call of main (<<>>: none)
    t,          \* the frame of the running call of train (<<>>: none)
    model,      \* the MultimodalTransformer object last constructed (<<>>: none)
    optimizer,  \* the optimizer object last constructed
    scheduler,  \* the scheduler object last constructed
    rng,        \* the latest set_seed call: its seed and who made it (<<>>: none)
    files,      \* what the script has written under save_path
    io,         \* the most recent external call, with its arguments
    trace,      \* the batches fetched and evaluations made in the current session
    ops,        \* the operations done on the current training batch
    recent,     \* the losses of the latest logging_steps training steps of the session
    last_eval   \* what the latest evaluate call of the session returned

vars == <<pc, args, sess, m, t, model, optimizer, scheduler, rng, files, io,
          trace, ops, recent, last_eval>>

\* ---------------------------------------------------------------- helpers
None == <<>>

SetAttr(f, k, v) == [a \in DOMAIN f \cup {k} |-> IF a = k THEN v ELSE f[a]]

Bound(f, k) == k \in DOMAIN f

Digit == <<"0", "1", "2", "3", "4", "5", "6", "7", "8", "9">>

\* str(n) for an int n
RECURSIVE StrNat(_)
StrNat(n) == IF n < 10 THEN Digit[n + 1] ELSE StrNat(n \div 10) \o Digit[(n % 10) + 1]

StrInt(n) == IF n < 0 THEN "-" \o StrNat(0 - n) ELSE StrNat(n)

\* f'{sess:02}': at least two digits, zero padded
Fmt02(n) == IF n < 10 THEN "0" \o StrNat(n) ELSE StrNat(n)

Pad4(n) ==
    IF n < 10 THEN "000" \o StrNat(n)
    ELSE IF n < 100 THEN "00" \o StrNat(n)
    ELSE IF n < 1000 THEN "0" \o StrNat(n)
    ELSE StrNat(n)

\* "{:.4f}".format(v / 100000): a metric is held in units of 1e-5 and printed
\* rounded to four decimals (the values drawn are never halfway between two
\* four-decimal numbers)
Fmt4f(v) ==
    LET r == (v + 5) \div 10
    IN  StrNat(r \div 10000) \o "." \o Pad4(r % 10000)

\* round(num / den) of Python 3: to the nearest integer, halves to the even one
RoundHalfEven(num, den) ==
    LET q == num \div den
        r2 == 2 * (num % den)
    IN  IF r2 < den THEN q
        ELSE IF r2 > den THEN q + 1
        ELSE IF q % 2 = 0 THEN q ELSE q + 1

RECURSIVE SumSeq(_)
SumSeq(s) == IF s = <<>> THEN 0 ELSE Head(s) + SumSeq(Tail(s))

\* the last k elements of s (all of s when it is shorter)
LastK(s, k) == IF Len(s) <= k THEN s ELSE SubSeq(s, Len(s) - k + 1, Len(s))

\* ------------------------------------------------------------ input sets
EpochsRange == (0 - NegEpochs)..MaxEpochs
LoggingRange == 1..MaxLog
LenRange == 1..MaxBatches
\* Losses and metrics are data the control flow never looks at: two distinct
\* values tell one batch, or one evaluation, from another.  A batch loss is in
\* arbitrary units; a metric is in units of 1e-5 (0.04213 and 1.23456).
LossValues == {1, 2}
MetricValues == {4213, 123456}

\* ------------------------------------------------------------- label sets
\* The label sets as the comments of train.py list them.  LABELDICT_P has no
\* comment under its own name: the comment of the one entry that uses it
\* lists "neutral, happy, surprise, sad".
ALL_DICT ==
    [LABELDICT_A |-> {"neutral", "happy", "angry", "surprise"},
     LABELDICT_B |-> {"neutral", "happy", "surprise"},
     LABELDICT_C |-> {"neutral", "happy", "angry", "surprise", "disqust", "sad"},
     LABELDICT_D |-> {"neutral", "happy", "angry", "surprise", "disqust", "sad", "fear"},
     LABELDICT_E |-> {"neutral", "happy", "angry", "surprise", "disqust"},
     LABELDICT_F |-> {"neutral", "happy", "surprise", "sad", "fear"},
     LABELDICT_G |-> {"neutral", "happy", "angry", "surprise", "sad", "fear"},
     LABELDICT_H |-> {"neutral", "happy", "angry", "disqust", "sad", "fear"},
     LABELDICT_I |-> {"neutral", "happy", "angry", "surprise", "sad"},
     LABELDICT_J |-> {"neutral", "happy", "surprise", "disqust", "sad", "fear"},
     LABELDICT_K |-> {"neutral", "happy", "angry", "surprise", "disqust", "fear"},
     LABELDICT_L |-> {"neutral", "happy", "surprise", "disqust"},
     LABELDICT_N |-> {"neutral", "happy", "surprise", "disqust", "fear"},
     LABELDICT_M |-> {"neutral", "happy", "angry", "surprise", "fear"},
     LABELDICT_P |-> {"neutral", "happy", "surprise", "sad"},
     LABELDICT_Q |-> {"disqust", "fear", "happy", "neutral", "sad"},
     LABELDICT_R |-> {"disqust", "happy", "neutral", "sad", "surprise"}]

NUM_CLASS_DICT ==
    <<  <<"LABELDICT_B", 3>>, <<"LABELDICT_B", 3>>, <<"LABELDICT_C", 6>>,
        <<"LABELDICT_C", 6>>, <<"LABELDICT_D", 7>>, <<"LABELDICT_D", 7>>,
        <<"LABELDICT_E", 5>>, <<"LABELDICT_C", 6>>, <<"LABELDICT_C", 6>>,
        <<"LABELDICT_D", 7>>, <<"LABELDICT_F", 5>>, <<"LABELDICT_G", 6>>,
        <<"LABELDICT_D", 7>>, <<"LABELDICT_H", 6>>, <<"LABELDICT_D", 7>>,
        <<"LABELDICT_D", 7>>, <<"LABELDICT_I", 5>>, <<"LABELDICT_Q", 5>>,
        <<"LABELDICT_C", 6>>, <<"LABELDICT_I", 5>>, <<"LABELDICT_D", 7>>,
        <<"LABELDICT_C", 6>>, <<"LABELDICT_E", 5>>, <<"LABELDICT_D", 7>>,
        <<"LABELDICT_D", 7>>, <<"LABELDICT_G", 6>>, <<"LABELDICT_C", 6>>,
        <<"LABELDICT_M", 5>>, <<"LABELDICT_D", 7>>, <<"LABELDICT_C", 6>>,
        <<"LABELDICT_B", 3>>, <<"LABELDICT_L", 4>>, <<"LABELDICT_N", 5>>,
        <<"LABELDICT_M", 5>>, <<"LABELDICT_E", 5>>, <<"LABELDICT_I", 5>>,
        <<"LABELDICT_R", 5>>, <<"LABELDICT_P", 4>>, <<"LABELDICT_C", 6>>,
        <<"LABELDICT_D", 7>>  >>

\* ---------------------------------------------------------- name building
\* "Session" + str(sess) + "_epoch:" + str(epoch) + "_"
TestName(s, e) == "Session" \o StrInt(s) \o "_epoch:" \o StrInt(e) \o "_"

\* "epoch{}-loss{:.4f}-f1{:.4f}.".format(epoch, loss, f1)
ModelName(e, loss, f1) ==
    "epoch" \o StrInt(e) \o "-loss" \o Fmt4f(loss) \o "-f1" \o Fmt4f(f1) \o "."

\* os.path.join(save_path, name)
PathJoin(dir, name) == dir \o "/" \o name

\* model_path + "Session" + str(sess) + '.pt'
CheckpointFile(path, s) == path \o "Session" \o StrInt(s) \o ".pt"

\* ------------------------------------------------------------------- Init
\* The state after parser.parse_args(): the Namespace holds the options,
\* nothing has been checked or written yet.
Init ==
    /\ pc = "check_modality"
    /\ \E oa \in BOOLEAN, ot \in BOOLEAN, e \in EpochsRange, ls \in LoggingRange :
          args = [only_audio |-> oa, only_text |-> ot, epochs |-> e,
                  logging_steps |-> ls, seed |-> DefaultSeed,
                  n_classes |-> DefaultNClasses, save_path |-> "./result",
                  warmup_percent |-> <<1, 10>>]
    /\ sess = 0
    /\ m = None
    /\ t = None
    /\ model = None
    /\ optimizer = None
    /\ scheduler = None
    /\ rng = None
    /\ files = [config |-> FALSE, ckpts |-> <<>>]
    /\ io = [op |-> "parse_args"]
    /\ trace = <<>>
    /\ ops = <<>>
    /\ recent = <<>>
    /\ last_eval = None

\* ----------------------------------------------------------- script body
\* a bug the modality test could have: "or" written for "and"
CheckModality_Or ==
    /\ pc = "check_modality"
    /\ IF args.only_audio \/ args.only_text
       THEN /\ pc' = "ValueError"
            /\ io' = [op |-> "raise", exc |-> "ValueError"]
       ELSE /\ pc' = "save_config"
            /\ io' = io
    /\ UNCHANGED <<args, sess, m, t, model, optimizer, scheduler, rng, files,
                   trace, ops, recent, last_eval>>

\* if args_.only_audio and args_.only_text: raise ValueError(...)
CheckModality ==
    /\ pc = "check_modality"
    /\ IF args.only_audio /\ args.only_text
       THEN /\ pc' = "ValueError"
            /\ io' = [op |-> "raise", exc |-> "ValueError"]
       ELSE /\ pc' = "save_config"
            /\ io' = io
    /\ UNCHANGED <<args, sess, m, t, model, optimizer, scheduler, rng, files,
                   trace, ops, recent, last_eval>>

\* with open(os.path.join(save_path, 'config.json'), 'w') as fp: json.dump(...)
SaveConfig ==
    /\ pc = "save_config"
    /\ files' = [files EXCEPT !.config = TRUE]
    /\ io' = [op |-> "json.dump", file |-> PathJoin(args.save_path, "config.json")]
    /\ pc' = "setup"
    /\ UNCHANGED <<args, sess, m, t, model, optimizer, scheduler, rng,
                   trace, ops, recent, last_eval>>

\* set_seed(args_.seed); device; logging.basicConfig; NUM_CLASS_DICT
Setup ==
    /\ pc = "setup"
    /\ rng' = [seed |-> args.seed, by |-> "script"]
    /\ args' = SetAttr(args, "device", "cuda:1 or cpu")
    /\ io' = [op |-> "set_seed", seed |-> args.seed]
    /\ pc' = "session_loop"
    /\ UNCHANGED <<sess, m, t, model, optimizer, scheduler, files,
                   trace, ops, recent, last_eval>>

\* for sess in range(1,41): num_class = NUM_CLASS_DICT[sess]; main(args_,sess,num_class)
SessionLoop ==
    /\ pc = "session_loop"
    /\ IF sess < NumSessions
       THEN /\ sess' = sess + 1
            /\ m' = [sess |-> sess + 1, num_class |-> NUM_CLASS_DICT[sess + 1]]
            /\ pc' = "main_seed"
       ELSE /\ pc' = "exit"
            /\ UNCHANGED <<sess, m>>
    /\ UNCHANGED <<args, t, model, optimizer, scheduler, rng, files, io,
                   trace, ops, recent, last_eval>>

\* ------------------------------------------------------------------- main
\* set_seed(args.seed); LABEL_DICT = ALL_DICT[num_class[0]]
MainSeed ==
    /\ pc = "main_seed"
    /\ rng' = [seed |-> args.seed, by |-> m.sess]
    /\ m' = SetAttr(m, "LABEL_DICT", ALL_DICT[m.num_class[1]])
    /\ io' = [op |-> "set_seed", seed |-> args.seed]
    /\ trace' = <<>>
    /\ last_eval' = None
    /\ pc' = "load_data"
    /\ UNCHANGED <<args, sess, t, model, optimizer, scheduler, files, ops, recent>>

\* trn_loader, dev_loader = (get_data_loader(..., split=split)
\*                           for split in ['train_'+f'{sess:02}', 'dev_'+f'{sess:02}'])
\* The number of training batches is whatever the session's data gives.
LoadData ==
    /\ pc = "load_data"
    /\ \E n \in LenRange :
          m' = SetAttr(SetAttr(m,
                  "trn_loader", [split |-> "train_" \o Fmt02(m.sess), len |-> n]),
                  "dev_loader", [split |-> "dev_" \o Fmt02(m.sess)])
    /\ io' = [op |-> "get_data_loader",
              splits |-> <<"train_" \o Fmt02(m.sess), "dev_" \o Fmt02(m.sess)>>,
              num_class |-> m.num_class]
    /\ pc' = "init_model"
    /\ UNCHANGED <<args, sess, t, model, optimizer, scheduler, rng, files,
                   trace, ops, recent, last_eval>>

\* a bug the construction could have: the class count taken from --n_classes
InitModel_ArgsNClasses ==
    /\ pc = "init_model"
    /\ model' = [id |-> m.sess, n_classes |-> args.n_classes,
                 only_audio |-> args.only_audio, only_text |-> args.only_text,
                 init |-> rng, training |-> TRUE,
                 grad |-> [batches |-> 0, clipped |-> FALSE], updates |-> 0]
    /\ io' = [op |-> "MultimodalTransformer", n_classes |-> args.n_classes]
    /\ pc' = "warmup"
    /\ UNCHANGED <<args, sess, m, t, optimizer, scheduler, rng, files,
                   trace, ops, recent, last_eval>>

\* a bug the construction could have: a model built once and kept for all sessions
InitModel_Reuse ==
    /\ pc = "init_model"
    /\ model' = IF model # None THEN model
                ELSE [id |-> m.sess, n_classes |-> m.num_class[2],
                      only_audio |-> args.only_audio, only_text |-> args.only_text,
                      init |-> rng, training |-> TRUE,
                      grad |-> [batches |-> 0, clipped |-> FALSE], updates |-> 0]
    /\ io' = [op |-> "MultimodalTransformer", n_classes |-> m.num_class[2]]
    /\ pc' = "warmup"
    /\ UNCHANGED <<args, sess, m, t, optimizer, scheduler, rng, files,
                   trace, ops, recent, last_eval>>

\* model = MultimodalTransformer(..., n_classes=num_class[1], ...).to(args.device)
\* A new object: no gradients, no update applied, parameters initialised under
\* the seeding in force at the call.
InitModel ==
    /\ pc = "init_model"
    /\ model' = [id |-> m.sess, n_classes |-> m.num_class[2],
                 only_audio |-> args.only_audio, only_text |-> args.only_text,
                 init |-> rng, training |-> TRUE,
                 grad |-> [batches |-> 0, clipped |-> FALSE], updates |-> 0]
    /\ io' = [op |-> "MultimodalTransformer", n_classes |-> m.num_class[2]]
    /\ pc' = "warmup"
    /\ UNCHANGED <<args, sess, m, t, optimizer, scheduler, rng, files,
                   trace, ops, recent, last_eval>>

\* args.total_steps = round(len(trn_loader) * args.epochs)
\* args.warmup_steps = round(args.total_steps * args.warmup_percent)
Warmup ==
    /\ pc = "warmup"
    /\ LET total == m.trn_loader.len * args.epochs
           wp == args.warmup_percent
       IN  args' = SetAttr(SetAttr(args, "total_steps", total),
                           "warmup_steps", RoundHalfEven(total * wp[1], wp[2]))
    /\ pc' = "opt_sched"
    /\ UNCHANGED <<sess, m, t, model, optimizer, scheduler, rng, files, io,
                   trace, ops, recent, last_eval>>

\* optimizer, scheduler = get_optimizer_and_scheduler(args, model)
\* New objects: the optimizer over this model's parameters, the scheduler over
\* this optimizer with the step totals args holds at the call.
OptSched ==
    /\ pc = "opt_sched"
    /\ optimizer' = [id |-> m.sess, model |-> model.id, steps |-> 0]
    /\ scheduler' = [id |-> m.sess, optimizer |-> m.sess, steps |-> 0,
                     total_steps |-> args.total_steps,
                     warmup_steps |-> args.warmup_steps]
    /\ io' = [op |-> "get_optimizer_and_scheduler", model |-> model.id,
              total_steps |-> args.total_steps, warmup_steps |-> args.warmup_steps]
    /\ pc' = "start_training"
    /\ UNCHANGED <<args, sess, m, t, model, rng, files,
                   trace, ops, recent, last_eval>>

\* a bug the reset could have: the step counter not reset for a new session
StartTraining_NoReset ==
    /\ pc = "start_training"
    /\ model' = [model EXCEPT !.grad = [batches |-> 0, clipped |-> FALSE]]
    /\ args' = IF Bound(args, "global_step") THEN args
               ELSE SetAttr(args, "global_step", 0)
    /\ recent' = <<>>
    /\ pc' = "epoch_loop"
    /\ UNCHANGED <<sess, m, t, optimizer, scheduler, rng, files, io,
                   trace, ops, last_eval>>

\* logging.info('training starts'); model.zero_grad(); args.global_step = 0
StartTraining ==
    /\ pc = "start_training"
    /\ model' = [model EXCEPT !.grad = [batches |-> 0, clipped |-> FALSE]]
    /\ args' = SetAttr(args, "global_step", 0)
    /\ recent' = <<>>
    /\ pc' = "epoch_loop"
    /\ UNCHANGED <<sess, m, t, optimizer, scheduler, rng, files, io,
                   trace, ops, last_eval>>

\* for epoch in range(1, args.epochs + 1): test_name = ...
\* The loop is left when the range is exhausted (at once when epochs <= 0).
EpochLoop ==
    /\ pc = "epoch_loop"
    /\ LET e == IF Bound(m, "epoch") THEN m.epoch + 1 ELSE 1
       IN  IF e <= args.epochs
           THEN /\ m' = SetAttr(SetAttr(m, "epoch", e),
                                "test_name", TestName(m.sess, e))
                /\ pc' = "train_call"
           ELSE /\ m' = m
                /\ pc' = "save"
    /\ UNCHANGED <<args, sess, t, model, optimizer, scheduler, rng, files, io,
                   trace, ops, recent, last_eval>>

\* train(args, model, trn_loader, optimizer, scheduler):
\* trn_loss, logging_loss = 0, 0; iterator = tqdm(enumerate(trn_loader), ...)
TrainCall ==
    /\ pc = "train_call"
    /\ t' = [trn_loss |-> 0, logging_loss |-> 0, fetched |-> 0]
    /\ pc' = "t_next"
    /\ UNCHANGED <<args, sess, m, model, optimizer, scheduler, rng, files, io,
                   trace, ops, recent, last_eval>>

\* ------------------------------------------------------------------ train
\* a bug the loop could have: gradients not zeroed before a batch
TrainNext_NoZeroGrad ==
    /\ pc = "t_next"
    /\ IF t.fetched < m.trn_loader.len
       THEN /\ t' = SetAttr([t EXCEPT !.fetched = @ + 1], "step", t.fetched)
            /\ model' = [model EXCEPT !.training = TRUE]
            /\ trace' = Append(trace, <<"batch", m.epoch, t.fetched>>)
            /\ ops' = <<"zero_grad">>
            /\ pc' = "t_forward"
       ELSE /\ t' = None
            /\ pc' = "evaluate"
            /\ UNCHANGED <<model, trace, ops>>
    /\ UNCHANGED <<args, sess, m, optimizer, scheduler, rng, files, io,
                   recent, last_eval>>

\* a bug the loop could have: train returning after its first batch
TrainNext_OneBatch ==
    /\ pc = "t_next"
    /\ IF t.fetched < 1
       THEN /\ t' = SetAttr([t EXCEPT !.fetched = @ + 1], "step", t.fetched)
            /\ model' = [model EXCEPT !.training = TRUE,
                                      !.grad = [batches |-> 0, clipped |-> FALSE]]
            /\ trace' = Append(trace, <<"batch", m.epoch, t.fetched>>)
            /\ ops' = <<"zero_grad">>
            /\ pc' = "t_forward"
       ELSE /\ t' = None
            /\ pc' = "evaluate"
            /\ UNCHANGED <<model, trace, ops>>
    /\ UNCHANGED <<args, sess, m, optimizer, scheduler, rng, files, io,
                   recent, last_eval>>

\* for step, batch in iterator: model.train(); model.zero_grad()
\* When the loader is exhausted train returns to main, which calls evaluate.
TrainNext ==
    /\ pc = "t_next"
    /\ IF t.fetched < m.trn_loader.len
       THEN /\ t' = SetAttr([t EXCEPT !.fetched = @ + 1], "step", t.fetched)
            /\ model' = [model EXCEPT !.training = TRUE,
                                      !.grad = [batches |-> 0, clipped |-> FALSE]]
            /\ trace' = Append(trace, <<"batch", m.epoch, t.fetched>>)
            /\ ops' = <<"zero_grad">>
            /\ pc' = "t_forward"
       ELSE /\ t' = None
            /\ pc' = "evaluate"
            /\ UNCHANGED <<model, trace, ops>>
    /\ UNCHANGED <<args, sess, m, optimizer, scheduler, rng, files, io,
                   recent, last_eval>>

\* logit, hidden = model(...); loss = loss_fct(logit, labels.view(-1))
\* trn_loss += loss.item()
TrainForward ==
    /\ pc = "t_forward"
    /\ \E l \in LossValues :
          /\ t' = SetAttr([t EXCEPT !.trn_loss = @ + l], "loss", l)
          /\ recent' = LastK(Append(recent, l), args.logging_steps)
    /\ ops' = Append(ops, "forward")
    /\ pc' = "t_backward"
    /\ UNCHANGED <<args, sess, m, model, optimizer, scheduler, rng, files, io,
                   trace, last_eval>>

\* loss.backward(): the batch's gradients are added to the stored ones
TrainBackward ==
    /\ pc = "t_backward"
    /\ model' = [model EXCEPT !.grad = [batches |-> @.batches + 1, clipped |-> FALSE]]
    /\ ops' = Append(ops, "backward")
    /\ pc' = "t_clip"
    /\ UNCHANGED <<args, sess, m, t, optimizer, scheduler, rng, files, io,
                   trace, recent, last_eval>>

\* torch.nn.utils.clip_grad_norm_(model.parameters(), args.clip)
TrainClip ==
    /\ pc = "t_clip"
    /\ model' = [model EXCEPT !.grad.clipped = TRUE]
    /\ ops' = Append(ops, "clip")
    /\ pc' = "t_opt"
    /\ UNCHANGED <<args, sess, m, t, optimizer, scheduler, rng, files, io,
                   trace, recent, last_eval>>

\* optimizer.step(): one update of the parameters the optimizer was built over
TrainOptStep ==
    /\ pc = "t_opt"
    /\ optimizer' = [optimizer EXCEPT !.steps = @ + 1]
    /\ model' = IF optimizer.model = model.id
                THEN [model EXCEPT !.updates = @ + 1]
                ELSE model
    /\ io' = [op |-> "optimizer.step", grad |-> model.grad]
    /\ ops' = Append(ops, "optimizer.step")
    /\ pc' = "t_sched"
    /\ UNCHANGED <<args, sess, m, t, scheduler, rng, files,
                   trace, recent, last_eval>>

\* scheduler.step()
TrainSchedStep ==
    /\ pc = "t_sched"
    /\ scheduler' = [scheduler EXCEPT !.steps = @ + 1]
    /\ io' = [op |-> "scheduler.step", optimizer_steps |-> optimizer.steps]
    /\ ops' = Append(ops, "scheduler.step")
    /\ pc' = "t_log"
    /\ UNCHANGED <<args, sess, m, t, model, optimizer, rng, files,
                   trace, recent, last_eval>>

\* args.global_step += 1
\* if args.global_step % args.logging_steps == 0:
\*     cur_logging_loss = (trn_loss - logging_loss) / args.logging_steps
\*     logging.info("train loss: ..."); logging_loss = trn_loss
\* The logged value is kept as the fraction num / den.
TrainLog ==
    /\ pc = "t_log"
    /\ LET gs == args.global_step + 1
       IN  /\ args' = [args EXCEPT !.global_step = gs]
           /\ IF gs % args.logging_steps = 0
              THEN /\ io' = [op |-> "logging.info", msg |-> "train loss",
                             num |-> t.trn_loss - t.logging_loss,
                             den |-> args.logging_steps, global_step |-> gs]
                   /\ t' = [t EXCEPT !.logging_loss = t.trn_loss]
              ELSE /\ io' = [op |-> "no log", global_step |-> gs]
                   /\ t' = t
    /\ ops' = Append(ops, "global_step += 1")
    /\ pc' = "t_next"
    /\ UNCHANGED <<sess, m, model, optimizer, scheduler, rng, files,
                   trace, recent, last_eval>>

\* ------------------------------------------------------- main, continued
\* loss, f1 = evaluate(model, dev_loader, args.device, test_name, args.save_path, LABEL_DICT)
Evaluate ==
    /\ pc = "evaluate"
    /\ \E l \in MetricValues, f \in MetricValues :
          /\ m' = SetAttr(SetAttr(m, "loss", l), "f1", f)
          /\ last_eval' = [epoch |-> m.epoch, loss |-> l, f1 |-> f]
    /\ io' = [op |-> "evaluate", model |-> model.id, loader |-> m.dev_loader.split,
              test_name |-> m.test_name, label_dict |-> m.LABEL_DICT]
    /\ trace' = Append(trace, <<"evaluate", m.epoch>>)
    /\ pc' = "name"
    /\ UNCHANGED <<args, sess, t, model, optimizer, scheduler, rng, files,
                   ops, recent>>

\* a bug the naming could have: the name fixed by the first epoch
NameCheckpoint_FirstEpoch ==
    /\ pc = "name"
    /\ m' = IF Bound(m, "model_path") THEN m
            ELSE SetAttr(SetAttr(m, "model_name", ModelName(m.epoch, m.loss, m.f1)),
                         "model_path",
                         PathJoin(args.save_path, ModelName(m.epoch, m.loss, m.f1)))
    /\ pc' = "epoch_loop"
    /\ UNCHANGED <<args, sess, t, model, optimizer, scheduler, rng, files, io,
                   trace, ops, recent, last_eval>>

\* model_name = "epoch{}-loss{:.4f}-f1{:.4f}.".format(epoch, loss, f1)
\* model_path = os.path.join(args.save_path, model_name)
NameCheckpoint ==
    /\ pc = "name"
    /\ m' = SetAttr(SetAttr(m, "model_name", ModelName(m.epoch, m.loss, m.f1)),
                    "model_path",
                    PathJoin(args.save_path, ModelName(m.epoch, m.loss, m.f1)))
    /\ pc' = "epoch_loop"
    /\ UNCHANGED <<args, sess, t, model, optimizer, scheduler, rng, files, io,
                   trace, ops, recent, last_eval>>

\* torch.save(model.state_dict(), model_path + "Session" + str(sess) + '.pt')
\* after the loop: model_path is a local of main that only the loop body
\* assigns, so reading it raises UnboundLocalError when no epoch has run.
Save ==
    /\ pc = "save"
    /\ IF Bound(m, "model_path")
       THEN /\ files' = [files EXCEPT !.ckpts = Append(@, m.sess)]
            /\ io' = [op |-> "torch.save",
                      file |-> CheckpointFile(m.model_path, m.sess),
                      state_dict |-> [id |-> model.id, init |-> model.init,
                                      updates |-> model.updates]]
            /\ pc' = "main_end"
       ELSE /\ io' = [op |-> "raise", exc |-> "UnboundLocalError"]
            /\ pc' = "UnboundLocalError"
            /\ files' = files
    /\ UNCHANGED <<args, sess, m, t, model, optimizer, scheduler, rng,
                   trace, ops, recent, last_eval>>

\* logging.info('training ended'); main returns and its frame is gone
MainEnd ==
    /\ pc = "main_end"
    /\ m' = None
    /\ pc' = "session_loop"
    /\ UNCHANGED <<args, sess, t, model, optimizer, scheduler, rng, files, io,
                   trace, ops, recent, last_eval>>

\* ------------------------------------------------------------------- Spec
Next ==
    \/ CheckModality
    \/ SaveConfig
    \/ Setup
    \/ SessionLoop
    \/ MainSeed
    \/ LoadData
    \/ InitModel
    \/ Warmup
    \/ OptSched
    \/ StartTraining
    \/ EpochLoop
    \/ TrainCall
    \/ TrainNext
    \/ TrainForward
    \/ TrainBackward
    \/ TrainClip
    \/ TrainOptStep
    \/ TrainSchedStep
    \/ TrainLog
    \/ Evaluate
    \/ NameCheckpoint
    \/ Save
    \/ MainEnd

Spec == Init /\ [][Next]_vars

\* ------------------------------------------------------------ positions
TrainPcs == {"t_next", "t_forward", "t_backward", "t_clip", "t_opt", "t_sched", "t_log"}

\* a batch has been fetched and its step is not finished
MidBatchPcs == TrainPcs \ {"t_next"}

\* main, from the reset of args.global_step to its return
AfterResetPcs == {"epoch_loop", "train_call", "evaluate", "name", "save", "main_end"}
                     \cup TrainPcs

\* main, once args.total_steps is this session's
AfterTotalPcs == {"opt_sched", "start_training"} \cup AfterResetPcs

MainPcs == {"main_seed", "load_data", "init_model", "warmup"} \cup AfterTotalPcs

Max0(n) == IF n < 0 THEN 0 ELSE n

\* the sessions 1..n in ascending order
Ascending(n) == [i \in 1..n |-> i]

\* ------------------------------------------------------------------- C1
\* C1: a run processes the sessions 1..40 in ascending order, each exactly
\* once; within a session the loaders, the model, the optimizer/scheduler, the
\* epochs and the checkpoint come in this order; no phase of session s+1
\* starts before the checkpoint of session s is saved.  (A run that passes the
\* modality check is meant.)
C1_Claim ==
    /\ files.ckpts = Ascending(Len(files.ckpts))
    /\ pc \in MainPcs =>
          /\ Len(files.ckpts) = (IF pc = "main_end" THEN sess ELSE sess - 1)
          /\ pc \in {"init_model", "warmup"} \cup AfterTotalPcs =>
                Bound(m, "trn_loader") /\ Bound(m, "dev_loader")
          /\ pc \in {"warmup"} \cup AfterTotalPcs => model.id = sess
          /\ pc \in AfterResetPcs \cup {"start_training"} =>
                optimizer.id = sess /\ scheduler.id = sess
    /\ pc \in {"exit", "UnboundLocalError"} => files.ckpts = Ascending(NumSessions)

\* ------------------------------------------------------------------- C2
\* C2: for every session and every integer --epochs (0 included) main saves
\* exactly one checkpoint for the session, after the evaluation of the last
\* epoch, none for an intermediate epoch, and does not end in an error.
C2_Claim ==
    /\ pc # "UnboundLocalError"
    /\ pc \in MainPcs \ {"main_end"} =>
          \A i \in 1..Len(files.ckpts) : files.ckpts[i] # sess
    /\ pc = "main_end" =>
          /\ Cardinality({i \in 1..Len(files.ckpts) : files.ckpts[i] = sess}) = 1
          /\ trace # <<>>
          /\ trace[Len(trace)] = <<"evaluate", args.epochs>>

\* ------------------------------------------------------------------- C3
\* C3: the checkpoint file of session s is named from the number of the last
\* epoch run (= args.epochs), the loss and f1 the evaluate call of that epoch
\* returned, and s; never from an earlier epoch's or session's values.
C3_Theorem ==
    pc = "main_end" =>
        /\ io.op = "torch.save"
        /\ last_eval # None
        /\ last_eval.epoch = args.epochs
        /\ io.file = CheckpointFile(
               PathJoin(args.save_path,
                        ModelName(args.epochs, last_eval.loss, last_eval.f1)),
               sess)

\* a checkpoint saved in a later session after more than one epoch
C3_Witness ==
    /\ pc = "main_end"
    /\ sess = 2
    /\ args.epochs = 2
    /\ last_eval.loss # last_eval.f1

ExpectedEvent(i, n) ==
    LET e == ((i - 1) \div (n + 1)) + 1
        j == (i - 1) % (n + 1)
    IN  IF j < n THEN <<"batch", e, j>> ELSE <<"evaluate", e>>

\* C5: epochs 1..args.epochs run in ascending order, each is train then
\* evaluate: evaluate is called once per epoch, after train has consumed every
\* batch of the training loader, and epoch e+1 is not trained before the
\* evaluation of epoch e has returned.
C5_Theorem ==
    (pc \in MainPcs /\ Bound(m, "trn_loader")) =>
        LET n == m.trn_loader.len
        IN  /\ \A i \in 1..Len(trace) : trace[i] = ExpectedEvent(i, n)
            /\ Len(trace) <= (n + 1) * Max0(args.epochs)
            /\ pc = "evaluate" => Len(trace) = (n + 1) * m.epoch - 1
            /\ pc \in {"save", "main_end"} => Len(trace) = (n + 1) * Max0(args.epochs)

\* two epochs of two batches each have been trained and evaluated
C5_Witness ==
    /\ pc = "save"
    /\ m.trn_loader.len = 2
    /\ trace = << <<"batch", 1, 0>>, <<"batch", 1, 1>>, <<"evaluate", 1>>,
                  <<"batch", 2, 0>>, <<"batch", 2, 1>>, <<"evaluate", 2>> >>

\* ------------------------------------------------------------------- C6
RECURSIVE Batches(_)
\* the number of batches among the events of a session
Batches(tr) ==
    IF tr = <<>> THEN 0
    ELSE (IF Head(tr)[1] = "batch" THEN 1 ELSE 0) + Batches(Tail(tr))

\* C6: args.global_step is reset to 0 at the start of every session and grows
\* by one per training batch, with one optimizer.step and one scheduler.step;
\* in every state of a session 0 <= global_step <= total_steps, where
\* total_steps = len(trn_loader) * epochs is computed before the scheduler is
\* built; when the checkpoint is saved global_step = total_steps = the number
\* of scheduler steps of the session.
C6_Claim ==
    /\ (pc \in AfterTotalPcs /\ Bound(args, "global_step")) =>
          /\ args.total_steps = m.trn_loader.len * args.epochs
          /\ 0 <= args.global_step
          /\ args.global_step <= args.total_steps
    /\ pc = "main_end" =>
          /\ args.global_step = args.total_steps
          /\ args.global_step = scheduler.steps

\* C6, amended: args.global_step is reset to 0 only by line 96, after the
\* session's loaders, model, optimizer and scheduler are built (until then it
\* holds the previous session's final count).  From that reset on it is the
\* number of training batches finished in the session, each with one
\* optimizer.step and one scheduler.step, it is >= 0, and it is <= total_steps
\* unless total_steps is negative (epochs < 0, when it stays 0), where
\* total_steps = len(trn_loader) * epochs is what the scheduler was built
\* with; when the checkpoint is saved global_step = total_steps = the number of
\* scheduler steps of the session.
C6_Amended ==
    /\ pc \in AfterResetPcs =>
          LET gs == args.global_step
              stepped == IF pc = "t_log" THEN 1 ELSE 0
              updated == IF pc \in {"t_sched", "t_log"} THEN 1 ELSE 0
              fetched == IF pc \in MidBatchPcs THEN 1 ELSE 0
          IN  /\ args.total_steps = m.trn_loader.len * args.epochs
              /\ scheduler.total_steps = args.total_steps
              /\ 0 <= gs
              /\ gs <= Max0(args.total_steps)
              /\ scheduler.steps = gs + stepped
              /\ scheduler.steps <= Max0(scheduler.total_steps)
              /\ optimizer.steps = gs + updated
              /\ Batches(trace) = gs + fetched
    /\ pc = "start_training" => scheduler.total_steps = m.trn_loader.len * args.epochs
    /\ pc = "main_end" =>
          /\ args.global_step = args.total_steps
          /\ args.global_step = scheduler.steps

\* the checkpoint of a second session is saved after four training steps
C6_Witness ==
    /\ pc = "main_end"
    /\ sess = 2
    /\ args.global_step = 4
    /\ scheduler.steps = 4

\* ------------------------------------------------------------------- C7
StepOrder ==
    <<"zero_grad", "forward", "backward", "clip", "optimizer.step",
      "scheduler.step", "global_step += 1">>

\* C7: every training step zeroes the gradients, runs the forward pass and the
\* loss, loss.backward, clips the gradient norm, runs optimizer.step, then
\* scheduler.step, and only then increments global_step; the optimizer never
\* steps on unclipped gradients or on gradients of an earlier batch, and the
\* scheduler never steps before the optimizer.
C7_Theorem ==
    /\ pc \in MidBatchPcs =>
          /\ Len(ops) <= Len(StepOrder)
          /\ ops = SubSeq(StepOrder, 1, Len(ops))
    /\ (pc = "t_next" /\ t.fetched > 0) => ops = StepOrder
    /\ pc = "t_opt" => model.grad = [batches |-> 1, clipped |-> TRUE]
    /\ io.op = "optimizer.step" => io.grad = [batches |-> 1, clipped |-> TRUE]
    /\ pc = "t_sched" =>
          optimizer.steps = args.global_step + 1 /\ scheduler.steps = args.global_step
    /\ pc = "t_log" =>
          optimizer.steps = args.global_step + 1 /\ scheduler.steps = args.global_step + 1

\* the optimizer has stepped on the second batch of an epoch
C7_Witness ==
    /\ pc = "t_sched"
    /\ t.fetched = 2
    /\ io.op = "optimizer.step"

\* ------------------------------------------------------------------- C8
\* C8: with both --only_audio and --only_text the script raises ValueError
\* before anything else observable (no config.json, no loader, no model, no
\* session, no checkpoint); with at most one of them it never raises it.
C8_Theorem ==
    /\ (args.only_audio /\ args.only_text) =>
          /\ pc \in {"check_modality", "ValueError"}
          /\ files = [config |-> FALSE, ckpts |-> <<>>]
          /\ sess = 0
          /\ m = None
          /\ model = None
          /\ io.op \in {"parse_args", "raise"}
    /\ pc = "ValueError" => (args.only_audio /\ args.only_text)
    /\ pc # "check_modality" =>
          (pc = "ValueError" <=> (args.only_audio /\ args.only_text))

\* the error has been raised
C8_Witness ==
    /\ pc = "ValueError"
    /\ io = [op |-> "raise", exc |-> "ValueError"]

\* ------------------------------------------------------------------- C9
\* C9: a train loss is logged exactly when global_step is a multiple of
\* logging_steps, and the value logged is the mean of the losses of the
\* logging_steps most recent training steps, in every epoch, for any
\* logging_steps >= 1 and any number of batches per epoch.
C9_Claim ==
    (pc = "t_next" /\ t.fetched > 0) =>
        /\ io.op = "logging.info" <=> args.global_step % args.logging_steps = 0
        /\ io.op = "logging.info" =>
              /\ Len(recent) = args.logging_steps
              /\ io.num * args.logging_steps = SumSeq(recent) * io.den

\* ------------------------------------------------------------------ C10
\* C10: every session builds a new model, optimizer and scheduler and re-seeds
\* with args.seed; the parameters saved for session s are this session's
\* model after exactly len(trn_loader) * epochs optimizer updates, all made in
\* session s; nothing of an earlier session is in them.
C10_Theorem ==
    pc = "main_end" =>
        LET n == m.trn_loader.len * args.epochs
        IN  /\ io.op = "torch.save"
            /\ io.state_dict = [id |-> sess,
                                init |-> [seed |-> args.seed, by |-> sess],
                                updates |-> n]
            /\ optimizer = [id |-> sess, model |-> sess, steps |-> n]
            /\ scheduler.id = sess
            /\ scheduler.optimizer = sess
            /\ scheduler.steps = n

\* the checkpoint of a later session
C10_Witness ==
    /\ pc = "main_end"
    /\ sess = 3
    /\ io.state_dict.updates = 2

====
